---- MODULE Spec2Model ----
(***************************************************************************)
(* Model of MMN_WebScraper.py: the harvest of the latest report (plain     *)
(* HTTP twice, then headless Chrome) and the reconciliation of the result  *)
(* against the latest_seen marker and the archive in blob storage.         *)
(*                                                                         *)
(* Text is a sequence of tokens (strings), a URL is a host and a sequence  *)
(* of path segments, a page is the tree of the elements the parser reads.  *)
(* Time is the number of whole seconds since START_TS.                     *)
(***************************************************************************)
EXTENDS Integers, Sequences, FiniteSets, TLC

\* ---------------------------------------------------------------- config
BASE == "mymarketnews.ams.usda.gov"
AZURE_BLOB_DIRECTORY == <<"Market News/USDA Weekly Reports/">>
GLOBAL_DEADLINE_SECONDS == 180
WAIT_CAP == 30
WAIT_FLOOR == 5

\* ---------------------------------------------------------------- bounds
\* the clock stops counting here; at GLOBAL_DEADLINE_SECONDS and later no
\* time is left, and the code asks nothing else of the clock
MaxClock == 180
\* whole seconds one blocking call (request, storage call, SMTP) may take
Durations == {0, 59}

Min(a, b) == IF a <= b THEN a ELSE b
Max(a, b) == IF a >= b THEN a ELSE b
Tick(t, d) == Min(t + d, MaxClock)

\* ------------------------------------------------------------- text, URLs
None == [host |-> "", path |-> <<>>]

Lower(tok) ==
  CASE tok = ".PDF" -> ".pdf"
    [] tok = "View Report" -> "view report"
    [] tok = "Download" -> "download"
    [] OTHER -> tok

\* str.strip(): leading and trailing whitespace tokens removed
RECURSIVE LStrip(_)
LStrip(s) == IF s # <<>> /\ Head(s) \in {" ", "\n"} THEN LStrip(Tail(s)) ELSE s
RECURSIVE RStrip(_)
RStrip(s) ==
  IF s # <<>> /\ s[Len(s)] \in {" ", "\n"} THEN RStrip(SubSeq(s, 1, Len(s) - 1)) ELSE s
Strip(s) == LStrip(RStrip(s))

\* urllib.parse.unquote on one token
UnquoteTok(tok) == IF tok = "%20" THEN " " ELSE tok
unquote(seg) == [i \in 1..Len(seg) |-> UnquoteTok(seg[i])]

\* urljoin(BASE, href): an href with its own host is kept, a relative one
\* is put under BASE
urljoin(base, href) ==
  IF href.host # "" THEN href ELSE [host |-> base, path |-> href.path]

normalize_filename_from_url(url) ==
  IF url.path = <<>> THEN <<>> ELSE unquote(url.path[Len(url.path)])

\* h.lower().endswith(".pdf") on the href's text
EndsWithPdf(href) ==
  /\ href.path # <<>>
  /\ LET seg == href.path[Len(href.path)]
     IN seg # <<>> /\ Lower(seg[Len(seg)]) = ".pdf"

\* ------------------------------------------------------------------ pages
\* a cell: [tag |-> "td" | "th", text |-> tokens]; a date in the text is the
\* tokens <<"ymd", y, m, d>> or <<"mdy", m, d, y>> in a row
\* a link: [text |-> tokens, hashref |-> BOOLEAN, href |-> URL]
\* a row: [cells |-> Seq(cell), links |-> Seq(link)]
\* a table: [tbody |-> BOOLEAN, head |-> Seq(row), body |-> Seq(row)]
\* a listing page: [tables |-> Seq(table)]; a detail page: [links |-> Seq(link)]

Ok(v) == [ok |-> TRUE, val |-> v, err |-> "none"]
Raise(e, v) == [ok |-> FALSE, val |-> v, err |-> e]

NoRow == [cells |-> <<>>, links |-> <<>>]

parse_list_html(page) ==
  IF page.tables = <<>> THEN Raise("RuntimeError", NoRow)
  ELSE LET table == page.tables[1]
           rows == IF table.tbody THEN table.body ELSE table.head \o table.body
       IN IF rows = <<>> THEN Raise("RuntimeError", NoRow) ELSE Ok(rows[1])

\* position of the first date in a text, 0 when there is none
RECURSIVE FirstDate(_, _)
FirstDate(txt, i) ==
  IF i + 3 > Len(txt) THEN 0
  ELSE IF txt[i] \in {"ymd", "mdy"} THEN i ELSE FirstDate(txt, i + 1)

NoDate == <<>>

\* the match returned as it was found
DateAt_raw(txt, i) == <<txt[i + 1], "-", txt[i + 2], "-", txt[i + 3]>>

\* lines 151-155: group 1 is turned round, group 2 returned as it is
DateAt(txt, i) ==
  IF txt[i] = "ymd" THEN <<txt[i + 2], "-", txt[i + 3], "-", txt[i + 1]>>
  ELSE <<txt[i + 1], "-", txt[i + 2], "-", txt[i + 3]>>

RECURSIVE ScanCells(_, _)
ScanCells(cells, k) ==
  IF k > Len(cells) THEN NoDate
  ELSE LET txt == Strip(cells[k].text)
           i == FirstDate(txt, 1)
       IN IF cells[k].tag = "td" /\ i # 0 THEN DateAt(txt, i)
          ELSE ScanCells(cells, k + 1)

extract_date_from_row(row) == ScanCells(row.cells, 1)

WithHref(links) == SelectSeq(links, LAMBDA a : a.hashref)

IsViewReport(a) ==
  LET t == Strip(a.text) IN Len(t) = 1 /\ Lower(t[1]) = "view report"

extract_detail_url_from_row(row) ==
  LET links == WithHref(row.links)
      view == SelectSeq(links, IsViewReport)
  IN IF view # <<>> THEN Ok(urljoin(BASE, view[1].href))
     ELSE IF links = <<>> THEN Raise("RuntimeError", None)
     ELSE Ok(urljoin(BASE, links[Len(links)].href))

IsPdfLink(a) == a.hashref /\ EndsWithPdf(a.href)

extract_pdf_from_detail_html(page) ==
  LET pdfs == SelectSeq(page.links, IsPdfLink)
  IN IF pdfs = <<>> THEN Raise("RuntimeError", None)
     ELSE Ok(urljoin(BASE, pdfs[1].href))

\* line 185 / 220
TargetFilename(report_date_str, pdf_url) ==
  IF report_date_str # NoDate
  THEN <<"National Hemp Report ">> \o report_date_str \o <<".pdf">>
  ELSE normalize_filename_from_url(pdf_url)

\* ------------------------------------------------ what the site may serve
LIST_URL == [host |-> BASE, path |-> <<<<"filerepo">>, <<"reports">>>>]

Rel(segs) == [host |-> "", path |-> segs]
Link(text, href) == [text |-> text, hashref |-> TRUE, href |-> href]
Td(text) == [tag |-> "td", text |-> text]
Th(text) == [tag |-> "th", text |-> text]

HeadRow == [cells |-> <<Th(<<"Report">>), Th(<<"Date">>)>>, links |-> <<>>]
RowDated ==
  [cells |-> <<Td(<<"Hemp">>), Td(<<" ", "ymd", "2025", "08", "27", "\n">>)>>,
   links |-> <<Link(<<"Download">>, Rel(<<<<"dl">>>>)),
               Link(<<" ", "View Report">>, Rel(<<<<"filerepo">>, <<"node1">>>>))>>]
RowUndated ==
  [cells |-> <<Td(<<"Hemp">>)>>,
   links |-> <<Link(<<"Details">>, Rel(<<<<"filerepo">>, <<"node2">>>>))>>]
RowNoLinks == [cells |-> <<Td(<<"mdy", "09", "03", "2025">>)>>, links |-> <<>>]

PageOf(row) ==
  [tables |-> <<[tbody |-> TRUE, head |-> <<HeadRow>>, body |-> <<row>>]>>]
PageNoTable == [tables |-> <<>>]

ListingPages == {PageOf(RowDated), PageOf(RowUndated), PageOf(RowNoLinks), PageNoTable}

DetailOf(dir) ==
  [links |-> <<Link(<<"Home">>, Rel(<<>>)),
               Link(<<"PDF">>, Rel(<<<<dir>>, <<"weekly-report-v3", ".pdf">>>>))>>]
DetailNoPdf == [links |-> <<Link(<<"Home">>, Rel(<<>>))>>]

DetailPages == {DetailOf("files"), DetailOf("revised"), DetailNoPdf}

\* what a GET that did not return a page raises: raise_for_status, or the
\* adapter after its retries
FetchErrors == {"HTTPError", "ConnectionError"}
\* what the browser raises on navigation
DriverErrors == {"WebDriverException"}

\* the bytes served at a PDF URL
ContentOf(url) == url

\* ------------------------------------------------------------------ store
\* the marker blob: absent, or text (a URL, possibly empty) with or without
\* surrounding whitespace
NoBlob == [present |-> FALSE, url |-> None, pad |-> FALSE]
Blob(url, pad) == [present |-> TRUE, url |-> url, pad |-> pad]

\* the read returning what the blob holds even when the download raised
read_latest_seen_unguarded(blob, readOk) == blob.url

\* read_latest_seen: download, decode, strip; empty or failing reads are None
read_latest_seen(blob, readOk) ==
  IF ~readOk \/ ~blob.present THEN None ELSE blob.url

\* the marker written without its value
write_latest_seen_empty(value) == Blob(None, FALSE)

\* write_latest_seen: upload_blob(value, overwrite=True)
write_latest_seen(value) == Blob(value, FALSE)

\* line 254
blob_path(filename) == AZURE_BLOB_DIRECTORY \o filename

BlobExists(arch, path) == path \in DOMAIN arch
\* an upload that reports success and stores nothing
PutBlob_dropped(arch, path, data) == arch

\* upload_blob(data, overwrite=True)
PutBlob(arch, path, data) ==
  [p \in DOMAIN arch \cup {path} |-> IF p = path THEN data ELSE arch[p]]

\* ---------------------------------------------------------------- watchdog
time_left(t) == GLOBAL_DEADLINE_SECONDS - t
Expired(t) == time_left(t) <= 0

\* the timeout without its floor
WaitBound_nofloor(t) == Min(WAIT_CAP, time_left(t))

\* WebDriverWait(driver, min(30, int(max(5, time_left()))))
WaitBound(t) == Min(WAIT_CAP, Max(WAIT_FLOOR, time_left(t)))

\* ------------------------------------------------------------------ state
Procs == {1, 2}
\* one scheduled job: runs follow one another, they never overlap
SeqProcs == {1}

VARIABLES
  marker,     \* the latest_seen.txt blob
  archive,    \* blob path -> bytes, for the blobs under AZURE_BLOB_DIRECTORY
  run,        \* per process: the locals of main() and where it stands
  html,       \* a listing document handed to the parsing functions
  html2,      \* a detail document handed to them
  harvest     \* what they made of the two documents

vars == <<marker, archive, run, html, html2, harvest>>

NoIO == [stage |-> "none", expired |-> FALSE]
\* the last WebDriverWait of the harvest: its timeout and the time left when
\* it began
NoWait == [stage |-> "none", bound |-> 0, left |-> 0]
Wait(stage, t, bound) == [stage |-> stage, bound |-> bound, left |-> time_left(t)]
NoPrev == [returned |-> FALSE, pdf_url |-> None, filename |-> <<>>]

\* a process before its first run, with the summary of its previous run
NewRun(prev) ==
  [pc |-> "idle", now |-> 0, latest_seen |-> None, attempt |-> 0,
   report_date_str |-> NoDate, detail_url |-> None, pdf_url |-> None,
   filename |-> <<>>, tier |-> "none", exists |-> FALSE, dl_attempt |-> 0,
   content |-> None, uploaded |-> FALSE, marked |-> FALSE, driver |-> "none",
   decision |-> "none", outcome |-> "none", err |-> "none", selErr |-> "none",
   httpAttempts |-> 0, httpFails |-> 0, fetched |-> 0, selCalls |-> 0,
   selStarts |-> 0, markerReads |-> 0, readOk |-> FALSE, existsChecks |-> 0, existed |-> FALSE, binFetches |-> 0,
   archiveWrites |-> 0, markerWrites |-> 0, notified |-> 0,
   io |-> NoIO, late |-> "none", wait |-> NoWait,
   marker0 |-> NoBlob, archive0 |-> <<>>, prev |-> prev]

EmptyArchive == [p \in {} |-> None]

\* no document handed to the parsing functions on their own
NoHarvest ==
  [op |-> "none", ok |-> FALSE, err |-> "none", report_date_str |-> NoDate,
   detail_url |-> None, pdf_url |-> None, filename |-> <<>>]
NoDocs ==
  /\ html = PageNoTable
  /\ html2 = DetailNoPdf
  /\ harvest = NoHarvest

Init ==
  /\ marker = NoBlob
  /\ archive = EmptyArchive
  /\ run = [r \in Procs |-> NewRun(NoPrev)]
  /\ NoDocs

\* the container as earlier runs or an operator may have left it
PdfUrls == {extract_pdf_from_detail_html(p).val : p \in {DetailOf("files"), DetailOf("revised")}}
Filenames ==
  {TargetFilename(d, u) : d \in {NoDate, extract_date_from_row(RowDated)}, u \in PdfUrls}
MarkerBlobs == {NoBlob} \cup {Blob(u, pad) : u \in PdfUrls \cup {None}, pad \in BOOLEAN}
Archives ==
  UNION {[ps -> {ContentOf(u) : u \in PdfUrls}] :
           ps \in SUBSET {blob_path(f) : f \in Filenames}}

InitAny ==
  /\ marker \in MarkerBlobs
  /\ archive \in Archives
  /\ run = [r \in Procs |-> NewRun(NoPrev)]
  /\ NoDocs

Set(r, rec) ==
  /\ run' = [run EXCEPT ![r] = rec]
  /\ UNCHANGED <<html, html2, harvest>>

\* a network call issued by a stage entered at time t
IO(stage, t) == [stage |-> stage, expired |-> Expired(t)]
\* the first stage entered with no time left
Late(rec, stage) ==
  IF rec.late = "none" /\ Expired(rec.now) THEN stage ELSE rec.late

\* main() returns
Return(rec) == [rec EXCEPT !.pc = "done", !.outcome = rec.decision]
\* an exception leaves main()
Die(rec, e) == [rec EXCEPT !.pc = "done", !.outcome = "Fatal", !.err = e]

\* what the previous run reconciled, when main() returned
Summary(rec) ==
  IF rec.outcome = "Fatal" THEN NoPrev
  ELSE [returned |-> TRUE, pdf_url |-> rec.pdf_url, filename |-> rec.filename]

\* the process is started (START_TS is set when the module is loaded)
StartRun(r) ==
  /\ run[r].pc \in {"idle", "done"}
  /\ Set(r, [NewRun(IF run[r].pc = "done" THEN Summary(run[r]) ELSE NoPrev)
               EXCEPT !.pc = "read_marker", !.marker0 = marker, !.archive0 = archive])
  /\ UNCHANGED <<marker, archive>>

\* line 240
ReadMarker(r) ==
  /\ run[r].pc = "read_marker"
  /\ \E readOk \in BOOLEAN, d \in Durations :
       Set(r, [run[r] EXCEPT !.latest_seen = read_latest_seen(marker, readOk),
                             !.markerReads = @ + 1,
                             !.readOk = readOk,
                             !.now = Tick(@, d),
                             !.pc = "http_list"])
  /\ UNCHANGED <<marker, archive>>

\* ----------------------------------------- scrape_latest_detail_and_pdf
\* range(2) at line 227
HttpAttempts == 2

\* the handler leaving the loop after the first failure
HttpFail_break(rec, e) ==
  [rec EXCEPT !.now = Tick(@, 1), !.attempt = @ + 1, !.httpFails = @ + 1,
              !.report_date_str = NoDate, !.detail_url = None, !.fetched = 0,
              !.pc = "selenium_init"]

\* the handler starting the same attempt again
HttpFail_again(rec, e) ==
  [rec EXCEPT !.now = Tick(@, 1), !.httpFails = @ + 1,
              !.report_date_str = NoDate, !.detail_url = None, !.fetched = 0,
              !.pc = "http_list"]

\* lines 231-233: the handler of one failed requests attempt; the locals of
\* the failed scrape_with_requests call are gone
HttpFail(rec, e) ==
  [rec EXCEPT !.now = Tick(@, 1), !.attempt = @ + 1, !.httpFails = @ + 1,
              !.report_date_str = NoDate, !.detail_url = None, !.fetched = 0,
              !.pc = IF rec.attempt + 1 < HttpAttempts THEN "http_list"
                     ELSE "selenium_init"]

\* lines 229, 179-182
FetchListing(r) ==
  /\ run[r].pc = "http_list"
  /\ UNCHANGED <<marker, archive>>
  /\ LET rec == [run[r] EXCEPT !.httpAttempts = @ + 1,
                               !.late = Late(run[r], "listing")]
     IN IF Expired(rec.now) THEN Set(r, HttpFail(rec, "TimeoutError"))
        ELSE \E d \in Durations :
          LET sent == [rec EXCEPT !.now = Tick(@, d), !.fetched = @ + 1,
                                  !.io = IO("listing", rec.now)]
          IN \/ \E e \in FetchErrors : Set(r, HttpFail(sent, e))
             \/ \E page \in ListingPages :
                  LET row == parse_list_html(page)
                      url == extract_detail_url_from_row(row.val)
                  IN IF ~row.ok THEN Set(r, HttpFail(sent, row.err))
                     ELSE IF ~url.ok THEN Set(r, HttpFail(sent, url.err))
                     ELSE Set(r, [sent EXCEPT
                            !.report_date_str = extract_date_from_row(row.val),
                            !.detail_url = url.val,
                            !.pc = "http_detail"])

\* lines 183-186
FetchDetail(r) ==
  /\ run[r].pc = "http_detail"
  /\ UNCHANGED <<marker, archive>>
  /\ LET rec == [run[r] EXCEPT !.late = Late(run[r], "detail")]
     IN IF Expired(rec.now) THEN Set(r, HttpFail(rec, "TimeoutError"))
        ELSE \E d \in Durations :
          LET sent == [rec EXCEPT !.now = Tick(@, d), !.fetched = @ + 1,
                                  !.io = IO("detail", rec.now)]
          IN \/ \E e \in FetchErrors : Set(r, HttpFail(sent, e))
             \/ \E page \in DetailPages :
                  LET pdf == extract_pdf_from_detail_html(page)
                  IN IF ~pdf.ok THEN Set(r, HttpFail(sent, pdf.err))
                     ELSE Set(r, [sent EXCEPT
                            !.pdf_url = pdf.val,
                            !.filename = TargetFilename(sent.report_date_str, pdf.val),
                            !.tier = "requests",
                            !.pc = "compare"])

\* the failure of the fallback wrapped like the download failure of line 283
HarvestRaise_wrapped(e) == "RuntimeError"

\* line 236: no handler around scrape_with_selenium(), and none in main()
HarvestRaise(e) == e

\* the exception leaving scrape_with_selenium without driver.quit()
SeleniumFail_leak(rec, e) ==
  Die([rec EXCEPT !.selErr = e], HarvestRaise(e))

\* the exception swallowed, main() going on without a result
SeleniumFail_swallowed(rec, e) ==
  [rec EXCEPT !.driver = "quit", !.selErr = e, !.pc = "compare"]

\* lines 222-223 and the way out of main()
SeleniumFail(rec, e) ==
  Die([rec EXCEPT !.driver = "quit", !.selErr = e], HarvestRaise(e))

\* the rendered page has an element matching "table tbody tr"
HasBodyRow(page) ==
  \E i \in 1..Len(page.tables) : page.tables[i].tbody /\ page.tables[i].body # <<>>
\* the rendered page has an element matching a[href$='.pdf']
HasPdfAnchor(page) ==
  \E i \in 1..Len(page.links) :
     /\ page.links[i].hashref
     /\ page.links[i].href.path # <<>>
     /\ LET seg == page.links[i].href.path[Len(page.links[i].href.path)]
        IN seg # <<>> /\ seg[Len(seg)] = ".pdf"

\* lines 190-203
SeleniumInit(r) ==
  /\ run[r].pc = "selenium_init"
  /\ UNCHANGED <<marker, archive>>
  /\ LET rec == [run[r] EXCEPT !.late = Late(run[r], "selenium"),
                               !.selCalls = @ + 1]
     IN IF Expired(rec.now)
        THEN Set(r, Die([rec EXCEPT !.selErr = "TimeoutError"], HarvestRaise("TimeoutError")))
        ELSE \E d \in Durations :
          LET started == [rec EXCEPT !.now = Tick(@, d), !.selStarts = @ + 1]
          IN \/ Set(r, [started EXCEPT !.driver = "live", !.pc = "sel_list"])
             \/ \E e \in DriverErrors :
                  Set(r, Die([started EXCEPT !.selErr = e], HarvestRaise(e)))

\* lines 205-212
SelListing(r) ==
  /\ run[r].pc = "sel_list"
  /\ UNCHANGED <<marker, archive>>
  /\ \E d \in Durations :
       LET rec == [run[r] EXCEPT !.late = Late(run[r], "sel_listing")]
           nav == [rec EXCEPT !.now = Tick(@, d),
                              !.io = IO("sel_listing", rec.now)]
           bound == WaitBound(nav.now)
       IN \/ \E e \in DriverErrors : Set(r, SeleniumFail(nav, e))
          \/ Set(r, SeleniumFail([nav EXCEPT !.now = Tick(@, bound),
                                              !.wait = Wait("listing", nav.now, bound)],
                                  "TimeoutException"))
          \/ \E page \in ListingPages, w \in {0, bound} :
               /\ HasBodyRow(page)
               /\ LET got == [nav EXCEPT !.now = Tick(@, w),
                                        !.wait = Wait("listing", nav.now, bound)]
                      row == parse_list_html(page)
                      url == extract_detail_url_from_row(row.val)
                  IN IF ~row.ok THEN Set(r, SeleniumFail(got, row.err))
                     ELSE IF ~url.ok THEN Set(r, SeleniumFail(got, url.err))
                     ELSE Set(r, [got EXCEPT
                            !.report_date_str = extract_date_from_row(row.val),
                            !.detail_url = url.val,
                            !.pc = "sel_detail"])

\* lines 214-223
SelDetail(r) ==
  /\ run[r].pc = "sel_detail"
  /\ UNCHANGED <<marker, archive>>
  /\ \E d \in Durations :
       LET rec == [run[r] EXCEPT !.late = Late(run[r], "sel_detail")]
           nav == [rec EXCEPT !.now = Tick(@, d),
                              !.io = IO("sel_detail", rec.now)]
           bound == WaitBound(nav.now)
       IN \/ \E e \in DriverErrors : Set(r, SeleniumFail(nav, e))
          \/ Set(r, SeleniumFail([nav EXCEPT !.now = Tick(@, bound),
                                              !.wait = Wait("detail", nav.now, bound)],
                                  "TimeoutException"))
          \/ \E page \in DetailPages, w \in {0, bound} :
               /\ HasPdfAnchor(page)
               /\ LET got == [nav EXCEPT !.now = Tick(@, w),
                                        !.wait = Wait("detail", nav.now, bound)]
                      pdf == extract_pdf_from_detail_html(page)
                  IN IF ~pdf.ok THEN Set(r, SeleniumFail(got, pdf.err))
                     ELSE Set(r, [got EXCEPT
                            !.pdf_url = pdf.val,
                            !.filename = TargetFilename(got.report_date_str, pdf.val),
                            !.tier = "selenium",
                            !.driver = "quit",
                            !.pc = "compare"])

\* ------------------------------------------------------------------ main
\* the early return of line 251 never taken
NoNewReport_never(latest_seen, pdf_url) == FALSE

\* the comparison inverted
NoNewReport_inverted(latest_seen, pdf_url) ==
  latest_seen # None /\ latest_seen # pdf_url

\* line 248
NoNewReport(latest_seen, pdf_url) == latest_seen # None /\ latest_seen = pdf_url

\* lines 248-254
Compare(r) ==
  /\ run[r].pc = "compare"
  /\ UNCHANGED <<marker, archive>>
  /\ IF NoNewReport(run[r].latest_seen, run[r].pdf_url)
     THEN Set(r, [run[r] EXCEPT !.decision = "NoChange", !.wait = NoWait,
                                !.pc = "notify"])
     ELSE Set(r, [run[r] EXCEPT !.wait = NoWait, !.pc = "exists_check"])

\* the result of the existence check ignored
AfterExists_ignored(exists) == "download"

\* line 264
AfterExists(exists) == IF exists THEN "skip_marker" ELSE "download"

\* lines 257-264: any exception of get_blob_properties leaves exists False
ExistsCheck(r) ==
  /\ run[r].pc = "exists_check"
  /\ UNCHANGED <<marker, archive>>
  /\ \E callOk \in BOOLEAN, d \in Durations :
       LET rec == [run[r] EXCEPT !.late = Late(run[r], "exists_check")]
           there == BlobExists(archive, blob_path(rec.filename))
           exists == callOk /\ there
       IN Set(r, [rec EXCEPT !.now = Tick(@, d), !.existsChecks = @ + 1,
                             !.io = IO("exists_check", rec.now),
                             !.existed = there,
                             !.exists = exists,
                             !.dl_attempt = 0,
                             !.pc = AfterExists(exists)])

\* the handler falling through to the marker write after the last attempt
DownloadFail_fallthrough(rec, e) ==
  IF rec.dl_attempt = 0
  THEN [rec EXCEPT !.now = Tick(@, 1), !.dl_attempt = 1, !.content = None,
                   !.pc = "download"]
  ELSE [rec EXCEPT !.content = None, !.pc = "write_marker"]

\* the handler raising on the first failure
DownloadFail_noretry(rec, e) == Die([rec EXCEPT !.content = None], "RuntimeError")

\* lines 278-283: the handler of one failed download/upload attempt
DownloadFail(rec, e) ==
  IF rec.dl_attempt = 0
  THEN [rec EXCEPT !.now = Tick(@, 1), !.dl_attempt = 1, !.content = None,
                   !.pc = "download"]
  ELSE Die([rec EXCEPT !.content = None], "RuntimeError")

\* lines 273-274
Download(r) ==
  /\ run[r].pc = "download"
  /\ UNCHANGED <<marker, archive>>
  /\ LET rec == [run[r] EXCEPT !.late = Late(run[r], "download")]
     IN IF Expired(rec.now) THEN Set(r, DownloadFail(rec, "TimeoutError"))
        ELSE \E d \in Durations :
          LET sent == [rec EXCEPT !.now = Tick(@, d), !.binFetches = @ + 1,
                                  !.io = IO("download", rec.now)]
          IN \/ \E e \in FetchErrors : Set(r, DownloadFail(sent, e))
             \/ Set(r, [sent EXCEPT !.content = ContentOf(sent.pdf_url),
                                    !.pc = "upload"])

\* lines 275-277
Upload(r) ==
  /\ run[r].pc = "upload"
  /\ \E d \in Durations :
       LET rec == [run[r] EXCEPT !.late = Late(run[r], "archive_write")]
           sent == [rec EXCEPT !.now = Tick(@, d), !.archiveWrites = @ + 1,
                               !.io = IO("archive_write", rec.now)]
       IN \/ /\ archive' = PutBlob(archive, blob_path(sent.filename), sent.content)
             /\ Set(r, [sent EXCEPT !.uploaded = TRUE, !.pc = "write_marker"])
             /\ UNCHANGED marker
          \/ /\ Set(r, DownloadFail(sent, "StorageError"))
             /\ UNCHANGED <<marker, archive>>

\* the failed marker write swallowed, the run going on to its report
MarkerWriteFail_swallowed(rec) ==
  [rec EXCEPT !.decision = IF rec.pc = "skip_marker" THEN "Skipped" ELSE "Uploaded",
              !.pc = "notify"]

\* lines 266 and 286: write_latest_seen raises and nothing catches it
MarkerWriteFail(rec) == Die(rec, "StorageError")

\* lines 265-266 and 286-287
WriteMarker(r) ==
  /\ run[r].pc \in {"skip_marker", "write_marker"}
  /\ UNCHANGED archive
  /\ \E d \in Durations :
       LET rec == [run[r] EXCEPT !.late = Late(run[r], "marker_write")]
           sent == [rec EXCEPT !.now = Tick(@, d), !.markerWrites = @ + 1,
                               !.io = IO("marker_write", rec.now)]
       IN \/ /\ marker' = write_latest_seen(sent.pdf_url)
             /\ Set(r, [sent EXCEPT
                   !.marked = TRUE,
                   !.decision = IF rec.pc = "skip_marker" THEN "Skipped" ELSE "Uploaded",
                   !.pc = "notify"])
          \/ /\ Set(r, MarkerWriteFail(sent))
             /\ UNCHANGED marker

\* send_notification_email, lines 49-71, then return
Notify(r) ==
  /\ run[r].pc = "notify"
  /\ UNCHANGED <<marker, archive>>
  /\ \E d \in Durations :
       Set(r, Return([run[r] EXCEPT !.now = Tick(@, d), !.notified = @ + 1]))

Step(r) ==
  \/ StartRun(r)
  \/ ReadMarker(r)
  \/ FetchListing(r)
  \/ FetchDetail(r)
  \/ SeleniumInit(r)
  \/ SelListing(r)
  \/ SelDetail(r)
  \/ Compare(r)
  \/ ExistsCheck(r)
  \/ Download(r)
  \/ Upload(r)
  \/ WriteMarker(r)
  \/ Notify(r)

Next == \E r \in SeqProcs : Step(r)

Spec == Init /\ [][Next]_vars

\* the same job started on a container with arbitrary contents
SpecAny == InitAny /\ [][Next]_vars

\* -------------------------------------------- two jobs started side by side
\* one step of a run of process r, its blocking calls returning at once (the
\* pauses of the two retry handlers still take their second); a process
\* runs once
StepOnce(r) ==
  /\ run[r].pc # "done"
  /\ Step(r)
  /\ run'[r].now \in {0, run[r].now, Tick(run[r].now, 1)}

NextConc == \E r \in Procs : StepOnce(r)

SpecConc == Init /\ [][NextConc]_vars

\* --------------------------------------- the parsing functions on their own
\* sequences over S of length at most n
Seqs(S, n) == UNION {[1..k -> S] : k \in 0..n}

\* most rows of a generated table body, most cells of a generated row
MaxRows == 2
MaxCells == 2

RowNoHref ==
  [cells |-> <<Td(<<"Hemp">>)>>,
   links |-> <<[text |-> <<"View Report">>, hashref |-> FALSE, href |-> None]>>]
RowAbsolute ==
  [cells |-> <<Td(<<"Hemp">>)>>,
   links |-> <<Link(<<"View Report">>, Rel(<<<<"filerepo">>, <<"node1">>>>)),
               Link(<<"Mirror">>, [host |-> "mirror", path |-> <<<<"node3">>>>])>>]
LinkRows == {RowDated, RowUndated, RowNoLinks, RowNoHref, RowAbsolute}
Tables ==
  {[tbody |-> b, head |-> h, body |-> rows] :
     b \in BOOLEAN, h \in {<<>>, <<HeadRow>>}, rows \in Seqs(LinkRows, MaxRows)}
SecondTable == [tbody |-> TRUE, head |-> <<>>, body |-> <<RowDated>>]
\* listing documents of every table layout
StructDocs ==
  {PageNoTable} \cup {[tables |-> <<t>>] : t \in Tables}
    \cup {[tables |-> <<t, SecondTable>>] : t \in Tables}

CellKinds ==
  {Td(<<"Hemp">>),
   Td(<<" ", "ymd", "2025", "08", "27", "\n">>),
   Td(<<"mdy", "09", "03", "2025">>),
   Th(<<"ymd", "2024", "01", "02">>),
   Td(<<"Week", "mdy", "09", "10", "2025", " ", "ymd", "2025", "08", "27">>)}
\* listing documents whose first row has every choice of cells
CellDocs ==
  {PageOf([cells |-> c, links |-> RowDated.links]) : c \in Seqs(CellKinds, MaxCells)}

DetailSpaced ==
  [links |-> <<Link(<<"PDF">>,
                    Rel(<<<<"files">>, <<"weekly", "%20", "report", ".PDF">>>>))>>]
DetailDocs == DetailPages \cup {DetailSpaced}

InitParse ==
  /\ marker = NoBlob
  /\ archive = EmptyArchive
  /\ run = [r \in Procs |-> NewRun(NoPrev)]
  /\ html \in StructDocs \cup CellDocs
  /\ html2 \in DetailDocs
  /\ harvest = NoHarvest

Failed(op, e) == [NoHarvest EXCEPT !.op = op, !.err = e]

\* lines 180 and 182
locate_latest(page) ==
  LET row == parse_list_html(page)
  IN IF ~row.ok THEN Raise(row.err, None)
     ELSE extract_detail_url_from_row(row.val)

\* lines 180-186, and 210-221: what both tiers do with the two documents
Scraped(op, page, page2) ==
  LET row == parse_list_html(page)
      url == extract_detail_url_from_row(row.val)
      pdf == extract_pdf_from_detail_html(page2)
  IN IF ~row.ok THEN Failed(op, row.err)
     ELSE IF ~url.ok THEN Failed(op, url.err)
     ELSE IF ~pdf.ok THEN Failed(op, pdf.err)
     ELSE [op |-> op, ok |-> TRUE, err |-> "none",
           report_date_str |-> extract_date_from_row(row.val),
           detail_url |-> url.val, pdf_url |-> pdf.val,
           filename |-> TargetFilename(extract_date_from_row(row.val), pdf.val)]

LocateLatest ==
  /\ harvest.op = "none"
  /\ LET url == locate_latest(html)
     IN harvest' = [NoHarvest EXCEPT !.op = "locate_latest", !.ok = url.ok,
                                     !.err = url.err, !.detail_url = url.val]
  /\ UNCHANGED <<marker, archive, run, html, html2>>

ScrapeWithRequests ==
  /\ harvest.op = "none"
  /\ harvest' = Scraped("scrape_with_requests", html, html2)
  /\ UNCHANGED <<marker, archive, run, html, html2>>

\* the two waits (206-208, 215-217) come before the parsing
ScrapeWithSelenium ==
  /\ harvest.op = "none"
  /\ harvest' = IF HasBodyRow(html) /\ HasPdfAnchor(html2)
                THEN Scraped("scrape_with_selenium", html, html2)
                ELSE Failed("scrape_with_selenium", "TimeoutException")
  /\ UNCHANGED <<marker, archive, run, html, html2>>

NextParse == LocateLatest \/ ScrapeWithRequests \/ ScrapeWithSelenium

SpecParse == InitParse /\ [][NextParse]_vars

\* ------------------------------------------------------------ properties
\* scrape_latest_detail_and_pdf() returned a triple
Resolved(rec) == rec.tier # "none"
Done(rec) == rec.pc = "done"
\* the persisted marker, as a run would read it
MarkerValue == read_latest_seen(marker, TRUE)
HoldsArtifact(rec) ==
  /\ BlobExists(archive, blob_path(rec.filename))
  /\ archive[blob_path(rec.filename)] = ContentOf(rec.pdf_url)

\* C1: a step that writes the marker is taken by a run that has already
\* uploaded its artifact to the archive path (and the archive holds it), or
\* has had get_blob_properties confirm a blob at that path; nothing else
\* changes the marker.
C1_MarkerWrittenAfterArchive ==
  [][/\ marker' # marker =>
          \E r \in Procs : run'[r].markerWrites = run[r].markerWrites + 1
     /\ \A r \in Procs :
          run'[r].markerWrites > run[r].markerWrites =>
            \/ run[r].uploaded /\ run[r].archiveWrites > 0 /\ HoldsArtifact(run[r])
            \/ /\ run[r].exists /\ run[r].existsChecks > 0
               /\ BlobExists(archive, blob_path(run[r].filename))]_vars

C1_Witness ==
  \E r \in Procs : run[r].marked /\ run[r].uploaded /\ MarkerValue = run[r].pdf_url

\* the second of two runs that reconciled the same artifact
SecondRun(rec) ==
  /\ Done(rec) /\ Resolved(rec) /\ rec.prev.returned
  /\ rec.prev.pdf_url = rec.pdf_url /\ rec.prev.filename = rec.filename

\* C2 as stated: a run that reconciles the artifact the previous run
\* reconciled ends NoChange.
C2_Original ==
  \A r \in Procs : SecondRun(run[r]) => run[r].outcome = "NoChange"

\* C2 amended: when the previous run returned an outcome for the same
\* artifact and this run's read of the marker succeeds, this run ends
\* NoChange; a run whose read of the marker fails never ends NoChange.
C2_IdempotentWhenMarkerRead ==
  \A r \in Procs :
    SecondRun(run[r]) =>
      /\ run[r].readOk => run[r].outcome = "NoChange"
      /\ ~run[r].readOk => run[r].outcome # "NoChange"

C2_Witness ==
  \E r \in Procs :
    SecondRun(run[r]) /\ run[r].readOk /\ run[r].outcome = "NoChange"

\* C3: a run that has ended Uploaded or Skipped leaves the marker equal to
\* the PDF URL it processed.
C3_MarkerIsProcessedUrl ==
  \A r \in Procs :
    (Done(run[r]) /\ run[r].outcome \in {"Uploaded", "Skipped"}) =>
      MarkerValue = run[r].pdf_url

C3_Witness ==
  \E r \in Procs :
    /\ Done(run[r]) /\ run[r].outcome = "Skipped"
    /\ run[r].marker0 # marker /\ MarkerValue = run[r].pdf_url

\* a network call of one of the stages that issue I/O
Stages ==
  {"listing", "detail", "sel_listing", "sel_detail", "exists_check",
   "download", "archive_write", "marker_write"}

\* C4 as stated: no stage issues its network call when it was entered with
\* no time left, and a run that entered a stage with no time left ends with
\* the deadline error and nothing else.
C4_Original ==
  \A r \in Procs :
    /\ run[r].io.stage \in Stages => ~run[r].io.expired
    /\ (Done(run[r]) /\ run[r].late # "none") =>
         run[r].outcome = "Fatal" /\ run[r].err = "TimeoutError"

SeleniumPcs == {"selenium_init", "sel_list", "sel_detail"}

\* C5: the fallback is entered, and the browser started, only after two
\* failed requests attempts; a run whose requests attempt succeeded never
\* enters it; a result that comes from the fallback comes after exactly two
\* requests attempts, both failed, and one browser session.
C5_FallbackOrdering ==
  \A r \in Procs :
    /\ (run[r].pc \in SeleniumPcs \/ run[r].selCalls > 0 \/ run[r].selStarts > 0
          \/ run[r].driver # "none") =>
         run[r].httpAttempts = 2 /\ run[r].httpFails = 2
    /\ run[r].tier = "requests" =>
         /\ run[r].selCalls = 0 /\ run[r].selStarts = 0 /\ run[r].driver = "none"
         /\ run[r].httpAttempts \in {1, 2}
         /\ run[r].httpFails = run[r].httpAttempts - 1
    /\ run[r].tier = "selenium" =>
         /\ run[r].httpAttempts = 2 /\ run[r].httpFails = 2
         /\ run[r].selCalls = 1 /\ run[r].selStarts = 1
    /\ run[r].httpAttempts <= 2

C5_Witness ==
  \E r \in Procs :
    /\ run[r].pc = "compare" /\ run[r].tier = "selenium"
    /\ run[r].httpAttempts = 2 /\ run[r].httpFails = 2 /\ run[r].pdf_url # None

\* C6: after two failed requests attempts the fallback is called once; when
\* it fails, the run is over with that very exception, no reconcile step
\* has been taken and the store is as the run found it.
C6_FallbackFailureIsFatal ==
  \A r \in Procs :
    /\ (run[r].httpFails = 2 /\ run[r].pc # "selenium_init") => run[r].selCalls = 1
    /\ run[r].selCalls <= 1 /\ run[r].selStarts <= run[r].selCalls
    /\ run[r].selErr # "none" =>
         /\ Done(run[r]) /\ run[r].outcome = "Fatal"
         /\ run[r].err = run[r].selErr
         /\ ~Resolved(run[r]) /\ run[r].decision = "none"
         /\ run[r].existsChecks = 0 /\ run[r].binFetches = 0
         /\ run[r].archiveWrites = 0 /\ run[r].markerWrites = 0
         /\ run[r].notified = 0
         /\ marker = run[r].marker0 /\ archive = run[r].archive0

C6_Witness ==
  \E r \in Procs :
    /\ Done(run[r]) /\ run[r].selErr = "TimeoutException"
    /\ run[r].err = "TimeoutException" /\ run[r].driver = "quit"

\* C7: a run that resolved the URL it read from the marker ends NoChange,
\* having fetched no binary, checked and written nothing in the store, and
\* having called the notification once.
C7_NoChangePath ==
  \A r \in Procs :
    (Resolved(run[r]) /\ run[r].latest_seen = run[r].pdf_url) =>
      /\ run[r].pc \in {"compare", "notify", "done"}
      /\ run[r].binFetches = 0 /\ run[r].existsChecks = 0
      /\ run[r].archiveWrites = 0 /\ run[r].markerWrites = 0
      /\ marker = run[r].marker0 /\ archive = run[r].archive0
      /\ Done(run[r]) => run[r].outcome = "NoChange" /\ run[r].notified = 1

C7_Witness ==
  \E r \in Procs :
    /\ Done(run[r]) /\ run[r].outcome = "NoChange"
    /\ run[r].latest_seen = run[r].pdf_url /\ run[r].notified = 1

\* a finished run that resolved an artifact other than the marker it read
\* and found a blob at the computed archive path
SkipCase(rec) ==
  /\ Done(rec) /\ Resolved(rec)
  /\ ~NoNewReport(rec.latest_seen, rec.pdf_url)
  /\ rec.existsChecks = 1 /\ rec.existed

\* C8 as stated: such a run ends Skipped with no fetch of the binary, no
\* archive write, the marker advanced and the notification called.
C8_Original ==
  \A r \in Procs :
    SkipCase(run[r]) =>
      /\ run[r].outcome = "Skipped"
      /\ run[r].binFetches = 0 /\ run[r].archiveWrites = 0
      /\ MarkerValue = run[r].pdf_url
      /\ run[r].notified = 1

\* C8 amended: once get_blob_properties has confirmed the blob, the run
\* fetches no binary, leaves the archive alone and calls write_latest_seen
\* once; if that write succeeds the marker is the PDF URL, the notification
\* is called and the run ends Skipped; if it fails the run ends Fatal with
\* the marker untouched and no notification.
C8_SkippedPath ==
  \A r \in Procs :
    (Resolved(run[r]) /\ run[r].exists) =>
      /\ run[r].existed /\ ~NoNewReport(run[r].latest_seen, run[r].pdf_url)
      /\ run[r].pc \in {"skip_marker", "notify", "done"}
      /\ run[r].binFetches = 0 /\ run[r].archiveWrites = 0
      /\ archive = run[r].archive0
      /\ Done(run[r]) =>
           /\ run[r].markerWrites = 1
           /\ run[r].marked =>
                /\ run[r].outcome = "Skipped" /\ MarkerValue = run[r].pdf_url
                /\ run[r].notified = 1
           /\ ~run[r].marked =>
                /\ run[r].outcome = "Fatal" /\ run[r].err = "StorageError"
                /\ marker = run[r].marker0 /\ run[r].notified = 0

C8_Witness ==
  \E r \in Procs :
    /\ SkipCase(run[r]) /\ run[r].exists /\ run[r].outcome = "Skipped"
    /\ run[r].latest_seen # None /\ marker # run[r].marker0

\* a run on the upload path: it resolved an artifact other than the marker
\* it read and found no blob at the computed archive path
UploadCase(rec) ==
  /\ Resolved(rec)
  /\ ~NoNewReport(rec.latest_seen, rec.pdf_url)
  /\ rec.existsChecks = 1 /\ ~rec.existed

\* C9 as stated: at most two fetches of the binary; after two failed
\* attempts the run is Fatal with the marker unchanged; after a successful
\* attempt the archive holds the binary, the marker is the PDF URL and the
\* run ends Uploaded.
C9_Original ==
  \A r \in Procs :
    (UploadCase(run[r]) /\ Done(run[r])) =>
      /\ run[r].binFetches <= 2
      /\ ~run[r].uploaded =>
           /\ run[r].outcome = "Fatal" /\ run[r].dl_attempt = 1
           /\ marker = run[r].marker0
      /\ run[r].uploaded =>
           /\ HoldsArtifact(run[r])
           /\ MarkerValue = run[r].pdf_url
           /\ run[r].outcome = "Uploaded"

\* C9 amended: at most two attempts and two fetches of the binary, the
\* second only after the first attempt failed; after two failed attempts the
\* run is Fatal (RuntimeError) with marker and archive unchanged; after a
\* successful attempt the archive holds the binary and write_latest_seen is
\* called once: if it succeeds the marker is the PDF URL and the run ends
\* Uploaded, if it fails the run ends Fatal with the marker unchanged.
C9_UploadPath ==
  \A r \in Procs :
    UploadCase(run[r]) =>
      /\ run[r].binFetches <= run[r].dl_attempt + 1
      /\ run[r].archiveWrites <= run[r].binFetches
      /\ run[r].dl_attempt \in {0, 1}
      /\ run[r].pc \in {"download", "upload", "write_marker", "notify", "done"}
      /\ run[r].uploaded => HoldsArtifact(run[r])
      /\ (Done(run[r]) /\ ~run[r].uploaded) =>
           /\ run[r].outcome = "Fatal" /\ run[r].err = "RuntimeError"
           /\ run[r].dl_attempt = 1
           /\ run[r].markerWrites = 0
           /\ marker = run[r].marker0 /\ archive = run[r].archive0
      /\ (Done(run[r]) /\ run[r].uploaded) =>
           /\ run[r].markerWrites = 1
           /\ run[r].marked =>
                /\ run[r].outcome = "Uploaded" /\ MarkerValue = run[r].pdf_url
           /\ ~run[r].marked =>
                /\ run[r].outcome = "Fatal" /\ run[r].err = "StorageError"
                /\ marker = run[r].marker0

C9_Witness ==
  \E r \in Procs :
    /\ UploadCase(run[r]) /\ Done(run[r]) /\ run[r].outcome = "Uploaded"
    /\ run[r].dl_attempt = 1 /\ run[r].binFetches = 2 /\ HoldsArtifact(run[r])

\* C10 as stated: whenever the marker names a PDF URL, the archive holds the
\* binary of that URL.
C10_Original ==
  MarkerValue # None =>
    \E p \in DOMAIN archive : archive[p] = ContentOf(MarkerValue)

\* C11 as stated: every finished run, whatever its outcome, has called the
\* notification exactly once, and a run that has called it issues no fetch
\* and no storage call afterwards.
C11_Original ==
  \A r \in Procs :
    /\ Done(run[r]) => run[r].notified = 1
    /\ run[r].notified > 0 => Done(run[r])

\* the marker blob is absent, empty, or its download raised
NoMarkerRead(rec) ==
  ~rec.readOk \/ ~rec.marker0.present \/ rec.marker0.url = None

\* C12: the marker is read once, before any fetch; when it is absent, empty
\* or unreadable the run has latest_seen = None, goes on to the harvest,
\* and once it has resolved an artifact it takes the existence check and
\* never ends NoChange.
C12_MarkerReadOnce ==
  \A r \in Procs :
    /\ run[r].pc = "read_marker" =>
         /\ run[r].markerReads = 0 /\ run[r].httpAttempts = 0
         /\ run[r].io = NoIO
    /\ run[r].pc \notin {"idle", "read_marker"} =>
         /\ run[r].markerReads = 1
         /\ NoMarkerRead(run[r]) =>
              /\ run[r].latest_seen = None
              /\ run[r].decision # "NoChange" /\ run[r].outcome # "NoChange"
              /\ (Resolved(run[r]) /\ run[r].pc \notin {"compare", "exists_check"}) =>
                   run[r].existsChecks = 1
              /\ (Done(run[r]) /\ ~Resolved(run[r])) =>
                   run[r].httpAttempts = 2 /\ run[r].selCalls = 1
         /\ ~NoMarkerRead(run[r]) => run[r].latest_seen = run[r].marker0.url

C12_Witness ==
  \E r \in Procs :
    /\ Done(run[r]) /\ ~run[r].readOk /\ run[r].marker0.present
    /\ run[r].marker0.url = run[r].pdf_url /\ run[r].outcome = "Skipped"

\* C13: a run whose marker write failed, or whose archive write failed on
\* both attempts, is over and Fatal; a run that ends Uploaded has written
\* both the archive blob and the marker, a run that ends Skipped has
\* written the marker.
C13_FailedWriteIsFatal ==
  \A r \in Procs :
    /\ (run[r].markerWrites > 0 /\ ~run[r].marked) =>
         /\ Done(run[r]) /\ run[r].outcome = "Fatal"
         /\ run[r].err = "StorageError" /\ run[r].decision = "none"
    /\ (run[r].archiveWrites = 2 /\ ~run[r].uploaded) =>
         Done(run[r]) /\ run[r].outcome = "Fatal" /\ run[r].decision = "none"
    /\ run[r].decision = "Uploaded" =>
         run[r].uploaded /\ run[r].marked /\ HoldsArtifact(run[r])
    /\ run[r].decision = "Skipped" => run[r].marked /\ run[r].exists
    /\ run[r].outcome \in {"Uploaded", "Skipped"} =>
         run[r].outcome = run[r].decision /\ MarkerValue = run[r].pdf_url

C13_Witness ==
  \E r \in Procs :
    /\ Done(run[r]) /\ run[r].uploaded /\ run[r].markerWrites = 1
    /\ ~run[r].marked /\ run[r].outcome = "Fatal"

\* C14: a browser session is live only while scrape_with_selenium is
\* between uc.Chrome() and its finally clause; every run that started one
\* has quit it when the fallback has returned or raised.
C14_BrowserTornDown ==
  \A r \in Procs :
    /\ run[r].driver = "live" <=> run[r].pc \in {"sel_list", "sel_detail"}
    /\ (run[r].selStarts = 1 /\ run[r].pc \notin {"sel_list", "sel_detail"}) =>
         \/ run[r].driver = "quit"
         \/ run[r].selErr \in DriverErrors /\ run[r].driver = "none"
    /\ Done(run[r]) => run[r].driver # "live"

C14_Witness ==
  \E r \in Procs :
    /\ Done(run[r]) /\ run[r].driver = "quit"
    /\ run[r].selErr = "RuntimeError" /\ run[r].selStarts = 1

\* C15 as stated: the timeout of each DOM wait is at most
\* min(30, time left when the wait begins).
C15_Original ==
  \A r \in Procs :
    run[r].wait.stage # "none" =>
      run[r].wait.bound <= Min(WAIT_CAP, run[r].wait.left)

\* C15 amended: the timeout of each DOM wait is between 5 and 30 seconds; it
\* is 30 when 30 seconds or more are left, the time left when between 5 and
\* 30 seconds are left, and 5 when fewer than 5 seconds are left, so that
\* only in this last case does it exceed the time left.
C15_WaitBounded ==
  \A r \in Procs :
    run[r].wait.stage # "none" =>
      LET b == run[r].wait.bound
          left == run[r].wait.left
      IN /\ b >= 5 /\ b <= 30
         /\ left >= 30 => b = 30
         /\ (left >= 5 /\ left < 30) => b = left
         /\ left < 5 => b = 5

C15_Witness ==
  \E r \in Procs :
    /\ run[r].wait.stage = "detail" /\ run[r].pc = "compare"
    /\ run[r].wait.left > 0 /\ run[r].wait.left < 5
    /\ run[r].wait.bound = 5

\* the number of steps a run can still take: the position in main() and in
\* the two range(2) loops, counted down
Rank(rec) ==
  CASE rec.pc = "idle" -> 21
    [] rec.pc = "read_marker" -> 20
    [] rec.pc = "http_list" -> 19 - 2 * rec.attempt
    [] rec.pc = "http_detail" -> 18 - 2 * rec.attempt
    [] rec.pc = "selenium_init" -> 15
    [] rec.pc = "sel_list" -> 14
    [] rec.pc = "sel_detail" -> 13
    [] rec.pc = "compare" -> 12
    [] rec.pc = "exists_check" -> 11
    [] rec.pc = "download" -> 10 - 2 * rec.dl_attempt
    [] rec.pc = "upload" -> 9 - 2 * rec.dl_attempt
    [] rec.pc = "skip_marker" -> 6
    [] rec.pc = "write_marker" -> 6
    [] rec.pc = "notify" -> 5
    [] OTHER -> 0
Outcomes == {"NoChange", "Skipped", "Uploaded", "Fatal"}
\* the fetch and session counts of one run, and its classification at exit
Bounded(rec) ==
  /\ rec.httpAttempts <= 2
  /\ rec.httpAttempts \in {rec.attempt, rec.attempt + 1}
  /\ rec.fetched <= 2
  /\ rec.selCalls <= 1
  /\ rec.selStarts <= 1
  /\ rec.binFetches <= 2
  /\ Rank(rec) >= 0
  /\ Done(rec) <=> Rank(rec) = 0
  /\ Done(rec) =>
       /\ rec.outcome \in Outcomes
       /\ rec.outcome = "Fatal" <=> rec.err # "none"
  /\ ~Done(rec) => rec.outcome = "none"

\* C18: a run makes at most two plain-HTTP attempts of at most two page
\* fetches each (four page fetches), starts at most one headless session and
\* fetches the binary at most twice; a run that has not finished can always
\* take a step, every step of it strictly decreases its rank (so it takes at
\* most 20 steps and no loop is unbounded), and it finishes with exactly one
\* of NoChange, Skipped, Uploaded or Fatal.
C18_BoundedTermination ==
  [][\A r \in Procs :
       /\ Bounded(run[r])
       /\ Bounded(run'[r])
       /\ run'[r].fetched # run[r].fetched =>
            \/ run'[r].fetched = run[r].fetched + 1
            \/ run'[r].fetched = 0 /\ run'[r].attempt = run[r].attempt + 1
            \/ run[r].pc = "done"
       /\ (r \in SeqProcs /\ run[r].pc # "done") => ENABLED Step(r)
       /\ (run'[r] # run[r] /\ run[r].pc # "done") =>
            Rank(run'[r]) < Rank(run[r])]_vars
\* a run that used both plain-HTTP attempts with two page fetches each, the
\* headless session and both binary fetches, and finished
C18_Witness ==
  \E r \in Procs :
    /\ Done(run[r])
    /\ run[r].httpAttempts = 2
    /\ run[r].httpFails = 2
    /\ run[r].selStarts = 1
    /\ run[r].binFetches = 2
    /\ run[r].outcome = "Uploaded"

\* scrape_latest_detail_and_pdf() has not returned a triple to this run
HarvestPending(rec) == rec.pc # "idle" /\ ~Resolved(rec)

\* C19: as long as the harvest of a run has produced no result, and for good
\* when it has failed, the run has made no existence check, fetched no
\* binary and written nothing: archive and marker are as the run found
\* them, and a run that ends without a harvest result ends Fatal.
C19_FailedHarvestWritesNothing ==
  \A r \in Procs :
    HarvestPending(run[r]) =>
      /\ run[r].existsChecks = 0 /\ run[r].binFetches = 0
      /\ run[r].archiveWrites = 0 /\ run[r].markerWrites = 0
      /\ run[r].decision = "none"
      /\ marker = run[r].marker0 /\ archive = run[r].archive0
      /\ Done(run[r]) => run[r].outcome = "Fatal" /\ run[r].notified = 0
\* a failed harvest on a store that already holds a marker and an artifact
C19_Witness ==
  \E r \in Procs :
    /\ Done(run[r]) /\ HarvestPending(run[r])
    /\ run[r].httpFails = 2 /\ run[r].selCalls = 1
    /\ run[r].marker0.present /\ run[r].archive0 # EmptyArchive
    /\ marker = run[r].marker0 /\ archive = run[r].archive0

\* some row of some table of the document has an anchor with an href
HasLinkedRow(page) ==
  \E i \in 1..Len(page.tables) :
    LET rows == page.tables[i].head \o page.tables[i].body
    IN \E k \in 1..Len(rows) : WithHref(rows[k].links) # <<>>

\* C16 as stated: for a listing document with a table row that has a link,
\* wherever that row is, locate_latest returns a non-empty absolute URL
\* and does not fail.
C16_Original ==
  (harvest.op = "locate_latest" /\ HasLinkedRow(html)) =>
    /\ harvest.ok
    /\ harvest.detail_url # None
    /\ harvest.detail_url.host # ""

\* the row both tiers read the date from
FirstRow(page) == parse_list_html(page).val
HasDateAt(txt, i) == i + 3 <= Len(txt) /\ txt[i] \in {"ymd", "mdy"}
DatedCells(row) ==
  {k \in 1..Len(row.cells) :
     /\ row.cells[k].tag = "td"
     /\ \E i \in 1..Len(row.cells[k].text) : HasDateAt(row.cells[k].text, i)}
\* the leftmost date of the first td cell that has one, as MM-DD-YYYY
ExpectedDate(row) ==
  IF DatedCells(row) = {} THEN NoDate
  ELSE LET k == CHOOSE c \in DatedCells(row) : \A o \in DatedCells(row) : c <= o
           txt == row.cells[k].text
           at == {i \in 1..Len(txt) : HasDateAt(txt, i)}
           i == CHOOSE a \in at : \A o \in at : a <= o
       IN IF txt[i] = "ymd" THEN <<txt[i + 2], "-", txt[i + 3], "-", txt[i + 1]>>
          ELSE <<txt[i + 1], "-", txt[i + 2], "-", txt[i + 3]>>

WroteMarker(r) ==
  /\ run[r].marked
  /\ run[r].pdf_url # None
  /\ MarkerValue = run[r].pdf_url

====
